---- MODULE Spec2Model ----
(***************************************************************************)
(* Model of src/Museum.py: the 0/1 knapsack solver of class Museum.        *)
(* A Museum is constructed from value, weight and capacity_max; solve()    *)
(* builds the table S (__optimal_subset_value), backtracks over it         *)
(* (__build_subset), derives the statistics and prints them.               *)
(*                                                                         *)
(* The Python lists value and weight carry a placeholder at index 0; the   *)
(* model keeps the items 1..n as TLA+ sequences, so value[i] and weight[i] *)
(* denote the same elements as in the source and n = len(value) - 1 is     *)
(* Len(value).  The table S is a function over 0..n whose rows are         *)
(* functions over 0..Cmax, as the list of lists of the source.             *)
(***************************************************************************)
EXTENDS Integers, Sequences, FiniteSets, TLC

VARIABLES value, weight, capacity_max, pc, S, i, j, subset, r,
          total_weight, total_value, error

vars == <<value, weight, capacity_max, pc, S, i, j, subset, r,
          total_weight, total_value, error>>

\* ---- bounds of the model ------------------------------------------------
MaxN == 3
MaxValue == 2
MaxWeight == 2
MaxCapacity == 3
\* bounds of the inputs of the unvalidated specification (SpecAny)
MaxNAny == 2
MaxCapacityAny == 2

\* ---- helpers ------------------------------------------------------------
Max(a, b) == IF a >= b THEN a ELSE b

SeqsUpTo(D, k) == UNION {[1..m -> D] : m \in 0..k}

RECURSIVE SumAt(_, _)
\* sum(f[k] for k in s), s a list of indices
SumAt(f, s) ==
    IF s = <<>> THEN 0 ELSE f[Head(s)] + SumAt(f, Tail(s))

RECURSIVE SumOver(_, _)
\* sum(f[x] for x in T)
SumOver(f, T) ==
    IF T = {} THEN 0
    ELSE LET x == CHOOSE y \in T : TRUE IN f[x] + SumOver(f, T \ {x})

Range(s) == {s[k] : k \in 1..Len(s)}

\* self.__n = len(value) - 1
n == Len(value)

\* A Python list of length len accepts index idx iff -len <= idx < len.
InRange(len, idx) == idx >= -len /\ idx < len
\* the position a (possibly negative) Python index denotes
PyIndex(len, idx) == IF idx < 0 THEN idx + len ELSE idx

\* length of a row of the table: len(range(Cmax + 1))
RowLen(Cmax) == IF Cmax + 1 > 0 THEN Cmax + 1 ELSE 0

\* ---- __optimal_subset_value --------------------------------------------
\* S = [[0 for _ in range(Cmax + 1)] for _ in range(n + 1)]
ZeroTable(rows, Cmax) == [a \in 0..rows |-> [b \in 0..Cmax |-> 0]]

\* for i in range(1, n + 1)
FirstRow == 1

\* the inner loop started one column early: range(0, Cmax + 1)
FirstColumn_Zero == FirstRow - 1

\* for j in range(1, Cmax + 1)
FirstColumn == 1

CellValue_NoMax(T, v, w, a, b) ==
    IF w[a] > b
    THEN T[a-1][b]
    ELSE T[a-1][b - w[a]] + v[a]

CellValue_HeavyZero(T, v, w, a, b) ==
    IF w[a] > b
    THEN 0
    ELSE Max(T[a-1][b], T[a-1][b - w[a]] + v[a])

CellValue_Unbounded(T, v, w, a, b) ==
    IF w[a] > b
    THEN T[a-1][b]
    ELSE Max(T[a-1][b], T[a][b - w[a]] + v[a])

\* the body of the inner loop: the value written to S[a][b]
CellValue(T, v, w, a, b) ==
    IF w[a] > b
    THEN T[a-1][b]
    ELSE LET dont_take == T[a-1][b]
             take == T[a-1][b - w[a]] + v[a]
         IN Max(dont_take, take)

RECURSIVE Fill(_, _, _, _, _, _)
\* the two nested loops, from position (a, b) on
Fill(T, v, w, Cmax, a, b) ==
    IF a > Len(v) THEN T
    ELSE IF b > Cmax THEN Fill(T, v, w, Cmax, a + 1, FirstColumn)
    ELSE Fill([T EXCEPT ![a][b] = CellValue(T, v, w, a, b)], v, w, Cmax, a, b + 1)

\* __optimal_subset_value(value, weight, Cmax) as a function of valid input
OptimalSubsetValue(v, w, Cmax) ==
    Fill(ZeroTable(Len(v), Cmax), v, w, Cmax, FirstRow, FirstColumn)

\* ---- __build_subset -----------------------------------------------------
Included_TakeOnTie(T, v, w, a, b) ==
    w[a] <= b /\ T[a][b] = T[a-1][b - w[a]] + v[a]

\* if S[i][r] != S[i-1][r]
Included(T, v, w, a, b) == T[a][b] # T[a-1][b]

Remaining_NoDecrease(b, wa) == b

\* r = r - weight[i]
Remaining(b, wa) == b - wa

\* ---- inputs -------------------------------------------------------------
ValidInput ==
    /\ Len(value) = Len(weight)
    /\ \A k \in 1..Len(value) : value[k] >= 0 /\ weight[k] >= 0
    /\ capacity_max >= 0

Locals ==
    /\ pc = "start"
    /\ S = <<>>
    /\ i = 0 /\ j = 0 /\ r = 0
    /\ subset = <<>>
    /\ total_weight = 0 /\ total_value = 0
    /\ error = "none"

\* Museum(value, weight, capacity_max) on input the spec calls valid
Init ==
    /\ \E m \in 0..MaxN :
          /\ value \in [1..m -> 0..MaxValue]
          /\ weight \in [1..m -> 0..MaxWeight]
    /\ capacity_max \in 0..MaxCapacity
    /\ Locals

\* Museum(value, weight, capacity_max) on any lists of integers: the
\* constructor stores its arguments unchecked
InitAny ==
    /\ value \in SeqsUpTo(-1..1, MaxNAny)
    /\ weight \in SeqsUpTo(-1..1, MaxNAny)
    /\ capacity_max \in -1..MaxCapacityAny
    /\ Locals

Raise(e) ==
    /\ pc' = "error"
    /\ error' = e

\* ---- actions ------------------------------------------------------------
\* solve() calls __optimal_subset_value: n and the zero table, outer loop
\* positioned on its first row
CreateTable ==
    /\ pc = "start"
    /\ S' = ZeroTable(n, capacity_max)
    /\ i' = FirstRow
    /\ j' = FirstColumn
    /\ pc' = "fill"
    /\ UNCHANGED <<value, weight, capacity_max, subset, r,
                   total_weight, total_value, error>>

\* one iteration of the inner loop
FillCell ==
    /\ pc = "fill"
    /\ i <= n
    /\ j <= capacity_max
    /\ IF i > Len(weight)
       THEN Raise("IndexError") /\ UNCHANGED <<S, j>>
       ELSE IF weight[i] <= j /\ ~InRange(RowLen(capacity_max), j - weight[i])
       THEN Raise("IndexError") /\ UNCHANGED <<S, j>>
       ELSE /\ S' = [S EXCEPT ![i][j] = CellValue(S, value, weight, i, j)]
            /\ j' = j + 1
            /\ UNCHANGED <<pc, error>>
    /\ UNCHANGED <<value, weight, capacity_max, i, subset, r,
                   total_weight, total_value>>

\* the inner loop is exhausted: next iteration of the outer loop
NextRow ==
    /\ pc = "fill"
    /\ i <= n
    /\ j > capacity_max
    /\ i' = i + 1
    /\ j' = FirstColumn
    /\ UNCHANGED <<value, weight, capacity_max, pc, S, subset, r,
                   total_weight, total_value, error>>

\* return S; solve() calls __build_subset, which sets subset, n and r
ReturnTable ==
    /\ pc = "fill"
    /\ i > n
    /\ pc' = "build"
    /\ subset' = <<>>
    /\ r' = capacity_max
    /\ i' = n
    /\ UNCHANGED <<value, weight, capacity_max, S, j,
                   total_weight, total_value, error>>

\* one iteration of the backtracking loop
BuildStep ==
    /\ pc = "build"
    /\ i >= 1
    /\ IF ~InRange(RowLen(capacity_max), r)
       THEN Raise("IndexError") /\ UNCHANGED <<i, subset, r>>
       ELSE LET b == PyIndex(RowLen(capacity_max), r) IN
            IF Included(S, value, weight, i, b)
            THEN IF i > Len(weight)
                 THEN Raise("IndexError") /\ UNCHANGED <<i, subset, r>>
                 ELSE /\ subset' = Append(subset, i)
                      /\ r' = Remaining(r, weight[i])
                      /\ i' = i - 1
                      /\ UNCHANGED <<pc, error>>
            ELSE /\ i' = i - 1
                 /\ UNCHANGED <<subset, r, pc, error>>
    /\ UNCHANGED <<value, weight, capacity_max, S, j,
                   total_weight, total_value>>

\* return subset; solve() derives the statistics
Statistics ==
    /\ pc = "build"
    /\ i < 1
    /\ IF \E k \in Range(subset) : k > Len(weight)
       THEN Raise("IndexError") /\ UNCHANGED <<total_weight, total_value>>
       ELSE IF ~InRange(RowLen(capacity_max), capacity_max)
       THEN /\ Raise("IndexError")
            /\ total_weight' = SumAt(weight, subset)
            /\ UNCHANGED total_value
       ELSE /\ total_weight' = SumAt(weight, subset)
            /\ total_value' = S[n][PyIndex(RowLen(capacity_max), capacity_max)]
            /\ pc' = "print"
            /\ UNCHANGED error
    /\ UNCHANGED <<value, weight, capacity_max, S, i, j, subset, r>>

\* the print statements; the utilization line divides by capacity_max
PrintResults ==
    /\ pc = "print"
    /\ IF capacity_max = 0
       THEN Raise("ZeroDivisionError")
       ELSE pc' = "done" /\ UNCHANGED error
    /\ UNCHANGED <<value, weight, capacity_max, S, i, j, subset, r,
                   total_weight, total_value>>

Next ==
    \/ CreateTable
    \/ FillCell
    \/ NextRow
    \/ ReturnTable
    \/ BuildStep
    \/ Statistics
    \/ PrintResults

Spec == Init /\ [][Next]_vars

SpecAny == InitAny /\ [][Next]_vars

\* ---- derived notions used by the properties ----------------------------
\* the table has been returned by __optimal_subset_value
TableReturned == pc \in {"build", "print", "done"} \/ (pc = "error" /\ error = "ZeroDivisionError")

\* __build_subset has returned
SubsetReturned == pc \in {"print", "done"} \/ (pc = "error" /\ error = "ZeroDivisionError")

TypeOK ==
    /\ pc \in {"start", "fill", "build", "print", "done", "error"}
    /\ error \in {"none", "IndexError", "ZeroDivisionError"}
    /\ (pc = "error") <=> (error # "none")

\* the best total value of a set of items among 1..a of total weight <= b
Best(a, b) ==
    LET fits == {T \in SUBSET (1..a) : SumOver(weight, T) <= b}
        best == CHOOSE T \in fits : \A U \in fits : SumOver(value, U) <= SumOver(value, T)
    IN SumOver(value, best)

\* ---- properties ---------------------------------------------------------

\* C1: every cell S[a][b] of the returned table is the maximum total value
\* over the subsets of items 1..a of total weight <= b.
C1_TableIsOptimum ==
    TableReturned =>
        \A a \in 0..n : \A b \in 0..capacity_max : S[a][b] = Best(a, b)

\* C2: the returned subset weighs at most the capacity and its total value
\* is S[n][capacity]; the totals solve derives describe that subset.
C2_SubsetFitsAndIsOptimal ==
    SubsetReturned =>
        /\ SumAt(weight, subset) <= capacity_max
        /\ SumAt(value, subset) = S[n][capacity_max]
        /\ total_weight = SumAt(weight, subset)
        /\ total_value = SumAt(value, subset)

C2_Witness ==
    /\ pc = "done"
    /\ Len(subset) >= 2
    /\ Len(subset) < n
    /\ \E k \in 1..n : weight[k] = 0

\* C3: on invalid input the computation fails at once with InvalidInput and
\* no table is ever returned.
C3_InvalidInputRejected ==
    ~ValidInput =>
        /\ ~TableReturned
        /\ pc = "error" => error = "InvalidInput"

\* C4: with capacity 0 a solve ends without error, with an all-zero table,
\* an empty subset and total value 0.
C4_ZeroCapacityCompletes ==
    capacity_max = 0 =>
        /\ pc # "error"
        /\ pc = "done" =>
              /\ \A a \in 0..n : S[a][0] = 0
              /\ subset = <<>>
              /\ total_value = 0

\* C5: when all items fit together the subset is all of 1..n and
\* S[n][capacity] is the sum of all values.
C5_AllItemsFit ==
    (SubsetReturned /\ capacity_max >= SumOver(weight, 1..n)) =>
        /\ Range(subset) = 1..n
        /\ S[n][capacity_max] = SumOver(value, 1..n)

\* C6: the final cell of the table built for capacity + 1 is never smaller
\* than the final cell of the table built for capacity, on the same items.
C6_MonotoneInCapacity ==
    TableReturned =>
        /\ S = OptimalSubsetValue(value, weight, capacity_max)
        /\ OptimalSubsetValue(value, weight, capacity_max + 1)[n][capacity_max + 1]
              >= S[n][capacity_max]

C6_Witness ==
    /\ TableReturned
    /\ n >= 2
    /\ S[n][capacity_max] > 0
    /\ OptimalSubsetValue(value, weight, capacity_max + 1)[n][capacity_max + 1]
          > S[n][capacity_max]

\* C7: in the returned table S[a][b] >= S[a-1][b] for every a in 1..n and
\* b in 0..capacity.
C7_MonotoneInItems ==
    TableReturned =>
        \A a \in 1..n : \A b \in 0..capacity_max : S[a][b] >= S[a-1][b]

C7_Witness ==
    /\ TableReturned
    /\ n >= 2
    /\ \E b \in 1..capacity_max : S[n][b] > S[n-1][b] /\ S[n-1][b] > 0
    /\ \E b \in 1..capacity_max : S[n][b] = S[n-1][b]

\* C8: row 0 and column 0 of the table are 0 from its creation on, through
\* every step of the fill loops and in the returned table.
C8_BordersStayZero ==
    pc # "start" =>
        /\ \A b \in 0..capacity_max : S[0][b] = 0
        /\ \A a \in 0..n : S[a][0] = 0

C8_Witness ==
    /\ pc = "fill"
    /\ i > n
    /\ \E k \in 1..n : weight[k] = 0 /\ value[k] > 0
    /\ capacity_max >= 1
    /\ S[n][capacity_max] > 0

\* the indices recorded so far are in 1..n and strictly decreasing
StrictlyDecreasing(s) ==
    /\ \A k \in 1..Len(s) : s[k] \in 1..n
    /\ \A k \in 1..Len(s) - 1 : s[k] > s[k+1]

\* C9: backtracking starts at i = n, r = capacity with nothing recorded; a
\* step records i and lowers r by weight[i] exactly when S[i][r] differs
\* from S[i-1][r], and otherwise leaves subset and r alone; it then moves to
\* i - 1.  Every index of 1..n is recorded at most once.
C9_BacktrackingRule ==
    /\ [][ /\ (pc = "fill" /\ pc' = "build") =>
                 (i' = n /\ r' = capacity_max /\ subset' = <<>>)
           /\ (pc = "build" /\ i >= 1) =>
                 /\ i' = i - 1
                 /\ IF S[i][r] # S[i-1][r]
                    THEN subset' = Append(subset, i) /\ r' = r - weight[i]
                    ELSE subset' = subset /\ r' = r ]_vars
    /\ [](StrictlyDecreasing(subset))

\* item i+1 has just been passed over on a tie: taking it would have given
\* the same value
C9_Witness ==
    /\ pc = "build"
    /\ i < n
    /\ (i + 1) \notin Range(subset)
    /\ value[i+1] > 0
    /\ weight[i+1] <= r
    /\ S[i][r - weight[i+1]] + value[i+1] = S[i][r]
    /\ subset # <<>>

\* C10: at the head of every backtracking iteration 0 <= r <= capacity, and
\* the values recorded so far plus S[i][r] (i the next item to visit) add
\* up to S[n][capacity].
C10_BacktrackingInvariant ==
    pc = "build" =>
        /\ 0 <= r /\ r <= capacity_max
        /\ SumAt(value, subset) + S[i][r] = S[n][capacity_max]

C10_Witness ==
    /\ pc = "build"
    /\ i >= 1
    /\ i < n
    /\ subset # <<>>
    /\ r < capacity_max
    /\ S[i][r] > 0
====
